---- MODULE Spec2Model ----
(***************************************************************************)
(* Model of pkg/util/logging.go: the process-wide request and response     *)
(* dump channels (requestLogFile, responseLogFile), their activation in    *)
(* SetupLogging, the record operations LogRequest and LogResponse, and     *)
(* the body policy shouldDumpBody.                                         *)
(*                                                                         *)
(* Strings that the code inspects character by character (content types)   *)
(* are sequences of one-character strings.  A channel file is a sequence   *)
(* of lines; every line carries the call that wrote it (by), which is      *)
(* bookkeeping for the properties and is never read by an action.          *)
(* One WriteString call appends its lines in one piece: afero's files      *)
(* (os.File, mem.File) serialise concurrent writes to one handle.  A       *)
(* failing WriteString may have written a proper prefix of its lines.      *)
(***************************************************************************)
EXTENDS Integers, Sequences, FiniteSets, TLC

VARIABLES
    env,              \* os environment: channel -> "unset" | "set"
    setup,            \* what SetupLogging returned: "none" (not run) | "nil" | "err"
    failed,           \* the step of SetupLogging that failed, "none" if none did
    process,          \* "running" | "exited" (FailOnError) | "panicked"
    requestLogFile,   \* TRUE iff the global holds a handle (!= nil)
    responseLogFile,  \* TRUE iff the global holds a handle (!= nil)
    created,          \* files SetupLogging opened: "log", "request", "response"
    file,             \* channel -> the lines of the channel's file
    synced,           \* channel -> number of lines covered by the last successful Sync
    call,             \* goroutine -> the LogRequest / LogResponse call it runs
    polArg,           \* argument of a direct shouldDumpBody call
    polRet            \* its results so far: <<>>, or <<b>> once it returned b

vars == <<env, setup, failed, process, requestLogFile, responseLogFile,
          created, file, synced, call, polArg, polRet>>

\* ------------------------------------------------------------------ bounds

\* number of goroutines that issue LogRequest / LogResponse concurrently
MaxCalls == 2

Calls == 1..MaxCalls

\* ------------------------------------------------------------------ strings

PrefixText == <<"t","e","x","t","/">>
PrefixJson == <<"a","p","p","l","i","c","a","t","i","o","n","/","j","s","o","n">>
PrefixXml == <<"a","p","p","l","i","c","a","t","i","o","n","/","x","m","l">>
TextPlain == <<"t","e","x","t","/","p","l","a","i","n">>
AppJsonCharset == <<"a","p","p","l","i","c","a","t","i","o","n","/","j","s","o","n",";"," ","c","h","a","r","s","e","t","=","u","t","f","-","8">>
AppXmlDtd == <<"a","p","p","l","i","c","a","t","i","o","n","/","x","m","l","-","d","t","d">>
ImagePng == <<"i","m","a","g","e","/","p","n","g">>

\* strings.HasPrefix(s, prefix): s begins with prefix
HasPrefix(s, prefix) ==
    /\ Len(prefix) <= Len(s)
    /\ SubSeq(s, 1, Len(prefix)) = prefix

\* shouldDumpBody: every test is strings.HasPrefix("<literal>", contentType),
\* the literal is the string and contentType the prefix
shouldDumpBody(contentType) ==
    IF HasPrefix(PrefixText, contentType) THEN TRUE
    ELSE IF HasPrefix(PrefixJson, contentType) THEN TRUE
    ELSE IF HasPrefix(PrefixXml, contentType) THEN TRUE
    ELSE FALSE

\* ------------------------------------------------------------------ inputs

Channels == {"request", "response"}

\* correlation ids the callers pass
Ids == {"", "abc123"}

\* request.Header / response.Header restricted to the key "Content-Type":
\* present is the ok of the map lookup, values the list stored under the key
NoHeader == [present |-> FALSE, values |-> <<>>]
Header(vs) == [present |-> TRUE, values |-> vs]

Headers ==
    { NoHeader,
      Header(<<>>),
      Header(<<PrefixJson, TextPlain>>),
      Header(<<TextPlain, PrefixJson>>) }

\* all prefixes of a string, the empty one included
Prefixes(s) == { SubSeq(s, 1, n) : n \in 0..Len(s) }

\* content types handed to shouldDumpBody directly
ContentTypes ==
    Prefixes(TextPlain) \cup Prefixes(AppJsonCharset) \cup Prefixes(AppXmlDtd)
        \cup Prefixes(ImagePng)

\* ------------------------------------------------------------------ records

\* number of '=' in the separator line of the format strings
SeparatorLen == 25

Separator == [i \in 1..SeparatorLen |-> "="]

IdLine(c, id) == [kind |-> "id", label |-> "Request-ID: ", text |-> id, by |-> c]
DumpLine(c, body) ==
    [kind |-> "dump", label |-> "",
     text |-> IF body THEN "head+body" ELSE "head", by |-> c]
SepLine(c) == [kind |-> "sep", label |-> "", text |-> Separator, by |-> c]

\* LogRequest with the id line in a WriteString of its own
RequestWritesSplit(c, id, body) ==
    << <<IdLine(c, id)>>, <<DumpLine(c, body), SepLine(c)>> >>

\* LogRequest without the id line for the empty id
RequestWritesIdIfNonEmpty(c, id, body) ==
    << (IF id # "" THEN <<IdLine(c, id)>> ELSE <<>>)
          \o <<DumpLine(c, body), SepLine(c)>> >>

\* the WriteString calls of LogRequest, in order: one call with the whole record
RequestWrites(c, id, body) ==
    << <<IdLine(c, id), DumpLine(c, body), SepLine(c)>> >>

\* LogResponse writing the id line for every id
ResponseWritesAlwaysId(c, id, body) ==
    << <<IdLine(c, id)>>, <<DumpLine(c, body), SepLine(c)>> >>

\* the WriteString calls of LogResponse, in order: the id line if id != "",
\* then the dump with the separator
ResponseWrites(c, id, body) ==
    (IF id # "" THEN << <<IdLine(c, id)>> >> ELSE <<>>)
        \o << <<DumpLine(c, body), SepLine(c)>> >>

\* the decision taken from the first value of the list
DumpBodyFirst(header) ==
    IF header.present THEN shouldDumpBody(header.values[1]) ELSE FALSE

\* var dumpBody = false; if contentTypes, ok := Header["Content-Type"]; ok {
\*   dumpBody = shouldDumpBody(contentTypes[len(contentTypes)-1]) }
DumpBody(header) ==
    IF header.present
    THEN shouldDumpBody(header.values[Len(header.values)])
    ELSE FALSE

\* contentTypes[len(contentTypes)-1] with an empty list: index -1, a run-time panic
IndexPanics(header) == header.present /\ Len(header.values) = 0

\* ------------------------------------------------------------------ setup

\* IsRequestLoggingActive: requestLogFile != nil
IsRequestLoggingActive == requestLogFile

\* IsResponseLoggingActive: responseLogFile != nil
IsResponseLoggingActive == responseLogFile

\* setupRequestLog opening the file whether or not the variable is set
setupRequestLogNoLookup(absOk, openOk) ==
    IF ~absOk THEN [err |-> "requestAbs", handle |-> requestLogFile, made |-> {}]
    ELSE IF ~openOk THEN [err |-> "requestOpen", handle |-> requestLogFile, made |-> {}]
    ELSE [err |-> "none", handle |-> TRUE, made |-> {"request"}]

\* setupRequestLog: the error it returns ("none" for nil), the value of
\* requestLogFile afterwards, and the paths it opened
setupRequestLog(absOk, openOk) ==
    IF env["request"] = "set"
    THEN IF ~absOk THEN [err |-> "requestAbs", handle |-> requestLogFile, made |-> {}]
         ELSE IF ~openOk THEN [err |-> "requestOpen", handle |-> requestLogFile, made |-> {}]
         ELSE [err |-> "none", handle |-> TRUE, made |-> {"request"}]
    ELSE [err |-> "none", handle |-> requestLogFile, made |-> {}]

\* setupResponseLog, as setupRequestLog
setupResponseLog(absOk, openOk) ==
    IF env["response"] = "set"
    THEN IF ~absOk THEN [err |-> "responseAbs", handle |-> responseLogFile, made |-> {}]
         ELSE IF ~openOk THEN [err |-> "responseOpen", handle |-> responseLogFile, made |-> {}]
         ELSE [err |-> "none", handle |-> TRUE, made |-> {"response"}]
    ELSE [err |-> "none", handle |-> responseLogFile, made |-> {}]

\* what the file system and FailOnError can answer during SetupLogging
SetupAnswers ==
    [dirMissing : BOOLEAN, mkdirOk : BOOLEAN, fatal : BOOLEAN, logOk : BOOLEAN,
     reqAbsOk : BOOLEAN, reqOpenOk : BOOLEAN, respAbsOk : BOOLEAN, respOpenOk : BOOLEAN]

\* SetupLogging(fs, verbose), run once at start-up.  FailOnError is defined
\* outside this file: after a failed Mkdir it either ends the process or returns.
SetupLogging ==
    /\ process = "running"
    /\ setup = "none"
    /\ \E a \in SetupAnswers :
        LET req == setupRequestLog(a.reqAbsOk, a.reqOpenOk)
            resp == setupResponseLog(a.respAbsOk, a.respOpenOk)
        IN  IF a.dirMissing /\ ~a.mkdirOk /\ a.fatal
            THEN /\ process' = "exited"
                 /\ failed' = "mkdir"
                 /\ UNCHANGED <<setup, requestLogFile, responseLogFile, created>>
            ELSE IF ~a.logOk
            THEN /\ setup' = "err"
                 /\ failed' = "logFile"
                 /\ UNCHANGED <<process, requestLogFile, responseLogFile, created>>
            ELSE IF req.err # "none"
            THEN /\ setup' = "err"
                 /\ failed' = req.err
                 /\ created' = created \cup {"log"}
                 /\ UNCHANGED <<process, requestLogFile, responseLogFile>>
            ELSE IF resp.err # "none"
            THEN /\ setup' = "err"
                 /\ failed' = resp.err
                 /\ requestLogFile' = req.handle
                 /\ created' = created \cup {"log"} \cup req.made
                 /\ UNCHANGED <<process, responseLogFile>>
            ELSE /\ setup' = "nil"
                 /\ failed' = "none"
                 /\ requestLogFile' = req.handle
                 /\ responseLogFile' = resp.handle
                 /\ created' = created \cup {"log"} \cup req.made
                                   \cup resp.made
                 /\ UNCHANGED process
    /\ UNCHANGED <<env, file, synced, call, polArg, polRet>>

\* ------------------------------------------------------------------ calls

IdleCall ==
    [pc |-> "idle", op |-> "none", id |-> "", header |-> NoHeader,
     active |-> FALSE, dumpBody |-> FALSE, pending |-> <<>>, trace |-> <<>>,
     ret |-> "none"]

ChannelOf(op) == IF op = "LogRequest" THEN "request" ELSE "response"

\* a goroutine may call once SetupLogging has returned; goroutines start in order
CanCall(c) ==
    /\ process = "running"
    /\ setup # "none"
    /\ call[c].pc = "idle"
    /\ c > 1 => call[c - 1].pc # "idle"

\* a failed step that does not end the call
OnErrorContinue(cl, step, ok, nextPc) ==
    [cl EXCEPT !.trace = Append(@, <<step, IF ok THEN "ok" ELSE "err">>),
               !.pc = nextPc,
               !.ret = IF nextPc = "done" THEN "nil" ELSE "none"]

\* if err != nil { return err }: the call cl after a step that went ok or failed
OnError(cl, step, ok, nextPc) ==
    [cl EXCEPT !.trace = Append(@, <<step, IF ok THEN "ok" ELSE "err">>),
               !.pc = IF ok THEN nextPc ELSE "done",
               !.ret = IF ~ok THEN "err"
                       ELSE IF nextPc = "done" THEN "nil" ELSE "none"]

\* the part of LogRequest / LogResponse before the first write: the gate,
\* the body decision and the dump (none of it touches the file)
Enter(op, id, header, isActive, writes, dumpOk) ==
    LET base == [IdleCall EXCEPT !.op = op, !.id = id, !.header = header,
                                 !.active = isActive]
    IN  IF ~isActive THEN [base EXCEPT !.pc = "done", !.ret = "nil"]
        ELSE IF IndexPanics(header) THEN [base EXCEPT !.pc = "done", !.ret = "panic"]
        ELSE OnError([base EXCEPT !.dumpBody = DumpBody(header), !.pending = writes],
                     "dump", dumpOk, "write")

\* the next file.WriteString of call cl (goroutine c), of which n lines reach
\* the file; it succeeds iff all of them do
Written(c, cl, n) ==
    LET lines == Head(cl.pending)
        rest == Tail(cl.pending)
        after == OnError(cl, "write", n = Len(lines),
                         IF rest = <<>> THEN "sync" ELSE "write")
    IN  /\ n \in 0..Len(lines)
        /\ file' = [file EXCEPT ![ChannelOf(cl.op)] = @ \o SubSeq(lines, 1, n)]
        /\ call' = [call EXCEPT ![c] = [after EXCEPT !.pending = rest]]

\* a call from its entry to the return of its first WriteString, or to its
\* return if that comes earlier
Begin(c, cl) ==
    /\ process' = IF cl.ret = "panic" THEN "panicked" ELSE process
    /\ IF cl.pc = "write"
       THEN \E n \in 0..Len(Head(cl.pending)) : Written(c, cl, n)
       ELSE call' = [call EXCEPT ![c] = cl] /\ UNCHANGED file

\* LogRequest(id, request) up to the return of requestLogFile.WriteString
LogRequest(c) ==
    /\ CanCall(c)
    /\ \E id \in Ids, header \in Headers, dumpOk \in BOOLEAN :
        Begin(c, Enter("LogRequest", id, header, IsRequestLoggingActive,
                       IF IndexPanics(header) THEN <<>>
                       ELSE RequestWrites(c, id, DumpBody(header)), dumpOk))
    /\ UNCHANGED <<env, setup, failed, requestLogFile, responseLogFile, created,
                   synced, polArg, polRet>>

\* LogResponse(id, response) up to the return of its first responseLogFile.WriteString
LogResponse(c) ==
    /\ CanCall(c)
    /\ \E id \in Ids, header \in Headers, dumpOk \in BOOLEAN :
        Begin(c, Enter("LogResponse", id, header, IsResponseLoggingActive,
                       IF IndexPanics(header) THEN <<>>
                       ELSE ResponseWrites(c, id, DumpBody(header)), dumpOk))
    /\ UNCHANGED <<env, setup, failed, requestLogFile, responseLogFile, created,
                   synced, polArg, polRet>>

\* a later WriteString of a call: in LogResponse with id != "", the dump and
\* the separator after the id line
WriteString(c) ==
    /\ process = "running"
    /\ call[c].pc = "write"
    /\ \E n \in 0..Len(Head(call[c].pending)) : Written(c, call[c], n)
    /\ UNCHANGED <<env, setup, failed, process, requestLogFile, responseLogFile,
                   created, synced, polArg, polRet>>

\* return file.Sync()
Sync(c) ==
    /\ process = "running"
    /\ call[c].pc = "sync"
    /\ LET ch == ChannelOf(call[c].op)
       IN  \E ok \in BOOLEAN :
             /\ synced' = IF ok THEN [synced EXCEPT ![ch] = Len(file[ch])] ELSE synced
             /\ call' = [call EXCEPT ![c] = OnError(call[c], "sync", ok, "done")]
    /\ UNCHANGED <<env, setup, failed, process, requestLogFile, responseLogFile,
                   created, file, polArg, polRet>>

\* ------------------------------------------------------------------ specification

Init ==
    /\ env \in [Channels -> {"unset", "set"}]
    /\ setup = "none"
    /\ failed = "none"
    /\ process = "running"
    /\ requestLogFile = FALSE
    /\ responseLogFile = FALSE
    /\ created = {}
    /\ file = [ch \in Channels |-> <<>>]
    /\ synced = [ch \in Channels |-> 0]
    /\ call = [c \in Calls |-> IdleCall]
    /\ polArg = <<>>
    /\ polRet = <<>>

Next ==
    \/ SetupLogging
    \/ \E c \in Calls : LogRequest(c)
    \/ \E c \in Calls : LogResponse(c)
    \/ \E c \in Calls : WriteString(c)
    \/ \E c \in Calls : Sync(c)

Spec == Init /\ [][Next]_vars

\* shouldDumpBody called directly on a content type
CallShouldDumpBody ==
    /\ polRet = <<>>
    /\ polRet' = <<shouldDumpBody(polArg)>>
    /\ UNCHANGED <<env, setup, failed, process, requestLogFile, responseLogFile,
                   created, file, synced, call, polArg>>

InitPolicy ==
    /\ env = [ch \in Channels |-> "unset"]
    /\ setup = "none"
    /\ failed = "none"
    /\ process = "running"
    /\ requestLogFile = FALSE
    /\ responseLogFile = FALSE
    /\ created = {}
    /\ file = [ch \in Channels |-> <<>>]
    /\ synced = [ch \in Channels |-> 0]
    /\ call = [c \in Calls |-> IdleCall]
    /\ polArg \in ContentTypes
    /\ polRet = <<>>

NextPolicy == CallShouldDumpBody

SpecPolicy == InitPolicy /\ [][NextPolicy]_vars

\* ------------------------------------------------------------------ properties

\* the lines goroutine c wrote to the file of channel ch, in file order
LinesBy(ch, c) == SelectSeq(file[ch], LAMBDA l : l.by = c)

\* their positions in the file
PositionsBy(ch, c) == { i \in DOMAIN file[ch] : file[ch][i].by = c }

Contiguous(S) == \A i \in S, j \in S : \A k \in i..j : k \in S

IsPrefix(s, t) == Len(s) <= Len(t) /\ SubSeq(t, 1, Len(s)) = s

RECURSIVE Flatten(_)
Flatten(chunks) ==
    IF chunks = <<>> THEN <<>> ELSE Head(chunks) \o Flatten(Tail(chunks))

\* the call of goroutine c got past the gate and the header lookup
Dumping(c) == call[c].pc # "idle" /\ call[c].active /\ call[c].ret # "panic"

\* the lines of the file format: "Request-ID: <id>", the wire dump with or
\* without the body, and 25 times '='
FormatId(c) == [kind |-> "id", label |-> "Request-ID: ", text |-> call[c].id, by |-> c]
FormatDump(c) ==
    [kind |-> "dump", label |-> "",
     text |-> IF call[c].dumpBody THEN "head+body" ELSE "head", by |-> c]
FormatSep(c) ==
    [kind |-> "sep", label |-> "",
     text |-> <<"=","=","=","=","=", "=","=","=","=","=", "=","=","=","=","=",
                "=","=","=","=","=", "=","=","=","=","=">>,
     by |-> c]

\* the record the file format prescribes for the call of goroutine c
FormatRecord(c) ==
    IF call[c].op = "LogRequest" \/ call[c].id # ""
    THEN <<FormatId(c), FormatDump(c), FormatSep(c)>>
    ELSE <<FormatDump(c), FormatSep(c)>>

\* the body policy applied to the last Content-Type value, FALSE without the header
PolicyOnLast(header) ==
    /\ header.present
    /\ shouldDumpBody(header.values[Len(header.values)])

Successful(c, op) == Dumping(c) /\ call[c].op = op /\ call[c].ret = "nil"

\* strings.HasPrefix read the intended way round: contentType starts with one
\* of "text/", "application/json", "application/xml"
StartsWithDumpable(contentType) ==
    \/ HasPrefix(contentType, PrefixText)
    \/ HasPrefix(contentType, PrefixJson)
    \/ HasPrefix(contentType, PrefixXml)

\* C1: shouldDumpBody(contentType) is true exactly for the content types that
\* start with "text/", "application/json" or "application/xml", and false for
\* every other one, the empty string included.
C1_PolicyByPrefix ==
    polRet # <<>> => polRet[1] = StartsWithDumpable(polArg)

\* C2: on the active request channel a successful LogRequest(id, request) has
\* appended, in this order, the line "Request-ID: <id>" (for every id, the
\* empty one too), the dump (with the body iff the body policy accepts the
\* declared content type) and the line of 25 '='.
C2_RequestRecord ==
    \A c \in Calls :
        Successful(c, "LogRequest") =>
            /\ LinesBy("request", c) = <<FormatId(c), FormatDump(c), FormatSep(c)>>
            /\ call[c].dumpBody = PolicyOnLast(call[c].header)

C2_Witness ==
    \E c \in Calls, d \in Calls :
        /\ Successful(c, "LogRequest") /\ Successful(d, "LogRequest")
        /\ call[c].id = "" /\ call[d].id = "abc123"
        /\ call[d].header = Header(<<TextPlain, PrefixJson>>)
        /\ call[d].dumpBody
        /\ Len(file["request"]) = 6

\* C3: on the active response channel a successful LogResponse(id, response)
\* has written a "Request-ID: <id>" line before the dump iff id is not empty;
\* with the empty id its record is the dump and the separator line only.
C3_ResponseIdLine ==
    \A c \in Calls :
        Successful(c, "LogResponse") =>
            LinesBy("response", c) =
                IF call[c].id # ""
                THEN <<FormatId(c), FormatDump(c), FormatSep(c)>>
                ELSE <<FormatDump(c), FormatSep(c)>>

C3_Witness ==
    \E c \in Calls, d \in Calls :
        /\ Successful(c, "LogResponse") /\ Successful(d, "LogResponse")
        /\ call[c].id = "" /\ call[d].id = "abc123"
        /\ Len(LinesBy("response", c)) = 2
        /\ Len(LinesBy("response", d)) = 3

OpOf(ch) == IF ch = "request" THEN "LogRequest" ELSE "LogResponse"

HandleOf(ch) == IF ch = "request" THEN requestLogFile ELSE responseLogFile

\* C4: a channel whose environment variable is unset is set up without an
\* error and without opening a file and stays inactive; every record call on
\* it returns nil and has dumped, written and synced nothing.
C4_UnsetChannelInert ==
    \A ch \in Channels :
        env[ch] = "unset" =>
            /\ ~HandleOf(ch)
            /\ ch \notin created
            /\ failed \notin {ch \o "Abs", ch \o "Open"}
            /\ file[ch] = <<>>
            /\ synced[ch] = 0
            /\ \A c \in Calls :
                  call[c].op = OpOf(ch) =>
                      /\ call[c].pc = "done"
                      /\ call[c].ret = "nil"
                      /\ call[c].trace = <<>>

C4_Witness ==
    /\ env["request"] = "unset"
    /\ env["response"] = "set"
    /\ setup = "nil"
    /\ \E c \in Calls, d \in Calls :
        /\ call[c].op = "LogRequest" /\ call[c].ret = "nil"
        /\ call[c].id = "abc123"
        /\ call[c].header = Header(<<TextPlain, PrefixJson>>)
        /\ Successful(d, "LogResponse")

\* C5: the records of concurrent LogRequest calls never interleave: the lines
\* of one call are consecutive in the request file and are its own id line,
\* dump and separator (a beginning of them if its write failed).
C5_RequestRecordsContiguous ==
    \A c \in Calls :
        call[c].op = "LogRequest" =>
            /\ Contiguous(PositionsBy("request", c))
            /\ IsPrefix(LinesBy("request", c), FormatRecord(c))
            /\ <<"write", "ok">> \in { call[c].trace[i] : i \in DOMAIN call[c].trace }
                  => LinesBy("request", c) = FormatRecord(c)

\* two calls with the same id, both past their write and neither synced yet
C5_Witness ==
    \E c \in Calls, d \in Calls :
        /\ c # d
        /\ call[c].op = "LogRequest" /\ call[d].op = "LogRequest"
        /\ call[c].id = call[d].id
        /\ call[c].pc = "sync" /\ call[d].pc = "sync"
        /\ Len(file["request"]) = 6

\* C6: a failure of path resolution or file open of a channel makes
\* SetupLogging return the error, and after a failed SetupLogging no channel
\* is active.
C6_FailedSetupLeavesNoChannel ==
    /\ failed \in {"requestAbs", "requestOpen", "responseAbs", "responseOpen"}
          => setup = "err"
    /\ setup = "err" => ~IsRequestLoggingActive /\ ~IsResponseLoggingActive

\* C7: the body decision of LogRequest / LogResponse is the body policy
\* applied to the last Content-Type value and to no other (to "text/plain"
\* for ["application/json", "text/plain"]); without the header the body is
\* not dumped.
C7_LastContentType ==
    \A c \in Calls :
        Dumping(c) =>
            /\ call[c].dumpBody = PolicyOnLast(call[c].header)
            /\ call[c].header = Header(<<PrefixJson, TextPlain>>)
                  => call[c].dumpBody = shouldDumpBody(TextPlain)
            /\ ~call[c].header.present => ~call[c].dumpBody
            /\ LET lines == LinesBy(ChannelOf(call[c].op), c)
               IN  \A i \in DOMAIN lines :
                       lines[i].kind = "dump" =>
                           (lines[i].text = "head+body") = PolicyOnLast(call[c].header)

C7_Witness ==
    \E c \in Calls, d \in Calls :
        /\ Dumping(c) /\ Dumping(d)
        /\ call[c].header = Header(<<PrefixJson, TextPlain>>)
        /\ call[d].header = Header(<<TextPlain, PrefixJson>>)
        /\ call[c].ret = "nil" /\ call[d].ret = "nil"
        /\ ~call[c].dumpBody /\ call[d].dumpBody

\* the WriteString calls the file format asks of the call of goroutine c
FormatWrites(c) ==
    IF call[c].op = "LogRequest" THEN <<FormatRecord(c)>>
    ELSE IF call[c].id # "" THEN << <<FormatId(c)>>, <<FormatDump(c), FormatSep(c)>> >>
    ELSE <<FormatRecord(c)>>

\* the i-th of the n steps of a call: the dump, its writes, the sync
PlanStep(i, n) == IF i = 1 THEN "dump" ELSE IF i = n THEN "sync" ELSE "write"

\* C8: on an active channel the steps are dump, write(s), sync in this order;
\* the call returns nil only after all of them succeeded, and then the file
\* is synced beyond the record's last line; the first failing step ends the
\* call with the error, nothing follows it, and every line written before
\* stays in the file.
C8_StepsAndErrors ==
    \A c \in Calls :
        Dumping(c) =>
            LET tr == call[c].trace
                ch == ChannelOf(call[c].op)
                writes == FormatWrites(c)
                n == Len(writes) + 2
                last == tr[Len(tr)]
                lines == LinesBy(ch, c)
                okWrites == Len(SelectSeq(tr, LAMBDA s : s = <<"write", "ok">>))
                done == Flatten(SubSeq(writes, 1, okWrites))
            IN  /\ Len(tr) \in 1..n
                /\ \A i \in DOMAIN tr : tr[i][1] = PlanStep(i, n)
                /\ \A i \in 1..(Len(tr) - 1) : tr[i][2] = "ok"
                /\ call[c].ret = "nil" <=> Len(tr) = n /\ last[2] = "ok"
                /\ call[c].ret = "err" <=> last[2] = "err"
                /\ call[c].pc = "done" <=> call[c].ret # "none"
                /\ call[c].ret = "nil" =>
                      /\ lines = Flatten(writes)
                      /\ \A i \in PositionsBy(ch, c) : i <= synced[ch]
                /\ IsPrefix(done, lines)
                /\ IsPrefix(lines, Flatten(writes))
                /\ last # <<"write", "err">> => lines = done

\* a LogResponse whose dump write failed after its id line was written, and a
\* LogRequest that returned nil
C8_Witness ==
    \E c \in Calls, d \in Calls :
        /\ Dumping(c) /\ call[c].op = "LogResponse"
        /\ call[c].trace = << <<"dump", "ok">>, <<"write", "ok">>, <<"write", "err">> >>
        /\ call[c].ret = "err"
        /\ FormatId(c) \in { file["response"][i] : i \in DOMAIN file["response"] }
        /\ Successful(d, "LogRequest")

\* C9: with concurrent LogResponse calls with non-empty ids, every
\* Request-ID line in the response file is directly followed by a line of the
\* same call (calls whose write failed aside).
C9_ResponseRecordsContiguous ==
    \A i \in DOMAIN file["response"] :
        LET l == file["response"][i]
        IN  (/\ l.kind = "id"
             /\ i < Len(file["response"])
             /\ call[l.by].ret # "err")
            => file["response"][i + 1].by = l.by

\* C10: no call of LogRequest or LogResponse crashes on the Content-Type list;
\* every call returns nil or an error.
C10_NoPanic ==
    /\ process # "panicked"
    /\ \A c \in Calls : call[c].ret \in {"none", "nil", "err"}

====
